---------------------------- MODULE Spec2Model ----------------------------
(***************************************************************************)
(* ReviewGarden (src/app.py): a batch SMS outreach dispatcher.  A CSV of   *)
(* customers is uploaded and validated, one message per row is generated,  *)
(* and send_sms_with_rate_limit walks the rows once, writing a status per  *)
(* row and returning the counters sent / failed / skipped.                 *)
(*                                                                         *)
(* A phone number is a sequence of one-character strings, other text a     *)
(* sequence of words, the empty string the empty sequence and pandas' NaN  *)
(* the one-word text <<"NaN">> (read_csv reads that literal, like an empty *)
(* field, as NaN).  Time is counted in ticks of 0.1 s.                     *)
(***************************************************************************)
EXTENDS Integers, Sequences, FiniteSets, TLC

(***************************************************************************)
(* Bounds of the model.                                                    *)
(***************************************************************************)
\* longest batch of the exhaustively enumerated runs
MaxRows == 2

\* ticks a slow channel call takes (a fast one takes none)
SlowCall == 3

\* how many of a row's templates the page's generator is let to draw from
TemplateDraws == 2

(***************************************************************************)
(* Text helpers.                                                           *)
(***************************************************************************)
NaN == <<"NaN">>

Empty == << >>

isna(v) == v = NaN

Digit == {"0", "1", "2", "3", "4", "5", "6", "7", "8", "9"}

IsDigit(c) == c \in Digit

IsSpace(c) == c = " "

\* the characters re.sub(r'[\s\-\(\)\.]', '', ...) removes
IsFormatting(c) == c \in {" ", "-", "(", ")", "."}

NotFormatting(c) == ~IsFormatting(c)

RECURSIVE LStrip(_)
LStrip(s) == IF s # << >> /\ IsSpace(Head(s)) THEN LStrip(Tail(s)) ELSE s

RECURSIVE RStrip(_)
RStrip(s) ==
    IF s # << >> /\ IsSpace(s[Len(s)]) THEN RStrip(SubSeq(s, 1, Len(s) - 1)) ELSE s

\* str.strip()
Strip(s) == RStrip(LStrip(s))

Contains(s, c) == \E k \in 1..Len(s) : s[k] = c

EndsWith(s, suffix) ==
    /\ Len(s) >= Len(suffix)
    /\ SubSeq(s, Len(s) - Len(suffix) + 1, Len(s)) = suffix

AllDigits(s) == \A k \in 1..Len(s) : IsDigit(s[k])

RECURSIVE StripLeadingZeros(_)
StripLeadingZeros(s) ==
    IF Len(s) > 1 /\ Head(s) = "0" THEN StripLeadingZeros(Tail(s)) ELSE s

Zeros(n) == [k \in 1..n |-> "0"]

DigitVal(c) ==
    CASE c = "0" -> 0 [] c = "1" -> 1 [] c = "2" -> 2 [] c = "3" -> 3
      [] c = "4" -> 4 [] c = "5" -> 5 [] c = "6" -> 6 [] c = "7" -> 7
      [] c = "8" -> 8 [] c = "9" -> 9

DigitChar(n) == CHOOSE c \in Digit : DigitVal(c) = n

\* the decimal digit string s, plus one
RECURSIVE Increment(_)
Increment(s) ==
    IF s = << >> THEN <<"1">>
    ELSE IF s[Len(s)] = "9"
         THEN Increment(SubSeq(s, 1, Len(s) - 1)) \o <<"0">>
         ELSE SubSeq(s, 1, Len(s) - 1) \o <<DigitChar(DigitVal(s[Len(s)]) + 1)>>

\* the value of a short digit string (an exponent)
RECURSIVE ToNat(_)
ToNat(s) == IF s = << >> THEN 0 ELSE 10 * ToNat(SubSeq(s, 1, Len(s) - 1)) + DigitVal(s[Len(s)])


(***************************************************************************)
(* "{:.0f}".format(float(s)) for a literal in exponent notation            *)
(* (validate_phone_number, the Excel scientific-notation branch).  float() *)
(* accepts [sign] digits [. digits] (e|E) [sign] digits and raises         *)
(* ValueError otherwise; .0f rounds half to even.  Decimal arithmetic on   *)
(* the digit strings: exact wherever the double is (mantissas of at most   *)
(* 15 digits, which covers every phone number the final pattern accepts).  *)
(***************************************************************************)
IsSign(c) == c \in {"+", "-"}

IsExpMark(c) == c \in {"e", "E"}

FirstExpMark(s) == CHOOSE k \in 1..Len(s) : IsExpMark(s[k]) /\ \A j \in 1..(k - 1) : ~IsExpMark(s[j])

Unsigned(s) == IF s # << >> /\ IsSign(Head(s)) THEN Tail(s) ELSE s

IsNegative(s) == s # << >> /\ Head(s) = "-"

DotPos(s) == IF Contains(s, ".") THEN CHOOSE k \in 1..Len(s) : s[k] = "." /\ \A j \in 1..(k - 1) : s[j] # "." ELSE Len(s) + 1

IntPart(m) == SubSeq(m, 1, DotPos(m) - 1)

FracPart(m) == SubSeq(m, DotPos(m) + 1, Len(m))

\* float() parses the literal
IsFloatLiteral(s) ==
    /\ \E k \in 1..Len(s) : IsExpMark(s[k])
    /\ LET k    == FirstExpMark(s)
           mant == Unsigned(SubSeq(s, 1, k - 1))
           expo == Unsigned(SubSeq(s, k + 1, Len(s)))
       IN  /\ AllDigits(IntPart(mant)) /\ AllDigits(FracPart(mant))
           /\ Len(IntPart(mant)) + Len(FracPart(mant)) >= 1
           /\ expo # << >> /\ AllDigits(expo)

\* digits d (a non-negative integer) divided by 10^n, rounded half to even
RoundShift(d, n) ==
    LET padded == IF Len(d) < n THEN Zeros(n - Len(d)) \o d ELSE d
        q      == StripLeadingZeros(<<"0">> \o SubSeq(padded, 1, Len(padded) - n))
        r      == SubSeq(padded, Len(padded) - n + 1, Len(padded))
        restNonZero == \E j \in 2..Len(r) : r[j] # "0"
        up     == \/ DigitVal(r[1]) > 5
                  \/ DigitVal(r[1]) = 5 /\ restNonZero
                  \/ DigitVal(r[1]) = 5 /\ ~restNonZero /\ DigitVal(q[Len(q)]) % 2 = 1
    IN  IF up THEN StripLeadingZeros(Increment(q)) ELSE q

FormatFloat0(s) ==
    LET k      == FirstExpMark(s)
        mpart  == SubSeq(s, 1, k - 1)
        epart  == SubSeq(s, k + 1, Len(s))
        mant   == Unsigned(mpart)
        digits == IntPart(mant) \o FracPart(mant)
        e      == ToNat(Unsigned(epart))
        scale  == (IF IsNegative(epart) THEN 0 - e ELSE e) - Len(FracPart(mant))
        mag    == IF scale >= 0
                  THEN StripLeadingZeros(digits \o Zeros(scale))
                  ELSE RoundShift(digits, 0 - scale)
    IN  (IF IsNegative(mpart) THEN <<"-">> ELSE << >>) \o mag

(***************************************************************************)
(* validate_phone_number: (is_valid, normalized phone or reason).          *)
(***************************************************************************)
\* the reason is kept as a one-element text so that it compares with a phone
Invalid(reason) == [ok |-> FALSE, value |-> <<reason>>]

Valid(phone) == [ok |-> TRUE, value |-> phone]

\* re.match(r'^\+\d{10,15}$', phone_clean)
MatchesE164(p) ==
    /\ p # << >> /\ Head(p) = "+"
    /\ AllDigits(Tail(p))
    /\ Len(Tail(p)) >= 10 /\ Len(Tail(p)) <= 15

\* lines 164-186, on the text left after the Excel repairs
NormalizeClean(phone_str) ==
    LET phone_clean == SelectSeq(phone_str, NotFormatting)
        digits      == SelectSeq(phone_clean, IsDigit)
        prefixed    ==
            IF phone_clean = << >> \/ Head(phone_clean) # "+"
            THEN IF Len(digits) = 10 THEN Valid(<<"+", "1">> \o digits)
                 ELSE IF Len(digits) = 11 /\ Head(digits) = "1" THEN Valid(<<"+">> \o digits)
                 ELSE Invalid("Invalid format: need 10-11 digits")
            ELSE Valid(<<"+">> \o digits)
    IN  IF ~prefixed.ok THEN prefixed
        ELSE IF MatchesE164(prefixed.value) THEN prefixed
        ELSE Invalid("Invalid international format")

validate_phone_number(phone) ==
    IF isna(phone) \/ phone = Empty THEN Invalid("Missing phone number")
    ELSE LET stripped == Strip(phone)
             hasExp   == \E k \in 1..Len(stripped) : IsExpMark(stripped[k])
         IN  IF hasExp /\ ~IsFloatLiteral(stripped) THEN Invalid("Invalid numeric format")
             ELSE LET numeric == IF hasExp THEN FormatFloat0(stripped) ELSE stripped
                      noDot0  == IF EndsWith(numeric, <<".", "0">>)
                                 THEN SubSeq(numeric, 1, Len(numeric) - 2)
                                 ELSE numeric
                  IN  NormalizeClean(noDot0)


(***************************************************************************)
(* The uploaded table.  A file is its header (a set of column names) and   *)
(* its rows; a row holds a value for every column the model follows.       *)
(***************************************************************************)
RequiredColumns ==
    {"Business Name", "Customer Name", "Email", "Phone", "Service Date", "Review Link"}

\* check_csv: every required column is there and the table has a row
check_csv(file) ==
    /\ RequiredColumns \subseteq file.columns
    /\ file.rows # << >>

\* parse_service_date reformats a date it can parse as "%B %d, %Y"
parse_service_date(date_value) == <<"%B %d, %Y">> \o date_value

\* enhanced_validate_csv_data, one row: a valid phone is rewritten in its
\* normalized form, an invalid one is reported and left as it was read
validate_row(row) ==
    LET phone == validate_phone_number(row.Phone)
        dated == IF isna(row.Service_Date) THEN row.Service_Date
                 ELSE parse_service_date(row.Service_Date)
    IN  [row EXCEPT !.Phone = IF ~isna(row.Phone) /\ phone.ok THEN phone.value ELSE @,
                    !.Service_Date = dated]

enhanced_validate_csv_data(rows) == [k \in 1..Len(rows) |-> validate_row(rows[k])]

(***************************************************************************)
(* Message generation.  A template is a sequence of words and              *)
(* placeholders; str.format puts the values in their places.               *)
(***************************************************************************)
load_message_templates ==
    << <<"Hi", "{customer_name}", "enjoyed", "{business_name}", "feedback">>,
       <<"Hey", "{customer_name}", "choosing", "{business_name}", "experience">>,
       <<"Hi", "{customer_name}", "visiting", "{business_name}", "appreciate">>,
       <<"Hello", "{customer_name}", "having you at", "{business_name}", "thoughts">> >>

date_service_templates ==
    << <<"Hi", "{customer_name}", "{service_type}", "at", "{business_name}", "on", "{service_date}">>,
       <<"Hey", "{customer_name}", "{service_type}", "at", "{business_name}", "on", "{service_date}", "love">> >>

date_templates ==
    << <<"Hi", "{customer_name}", "visit to", "{business_name}", "on", "{service_date}">>,
       <<"Hey", "{customer_name}", "visiting", "{business_name}", "on", "{service_date}">> >>

service_templates ==
    << <<"Hi", "{customer_name}", "loved your", "{service_type}", "at", "{business_name}">>,
       <<"Hey", "{customer_name}", "choosing", "{business_name}", "for your", "{service_type}">> >>

\* the list random.choice draws from
available_templates(service_type, service_date) ==
    (IF service_date # Empty /\ service_type # Empty THEN date_service_templates
     ELSE IF service_date # Empty THEN date_templates
     ELSE IF service_type # Empty THEN service_templates
     ELSE << >>) \o load_message_templates

RECURSIVE Format(_, _, _, _, _)
Format(template, customer_name, business_name, service_type, service_date) ==
    IF template = << >> THEN << >>
    ELSE LET w == Head(template)
             v == CASE w = "{customer_name}" -> customer_name
                    [] w = "{business_name}" -> business_name
                    [] w = "{service_type}" -> service_type
                    [] w = "{service_date}" -> service_date
                    [] OTHER -> <<w>>
         IN  v \o Format(Tail(template), customer_name, business_name, service_type, service_date)

\* choice is the position random.choice picks
generate_enhanced_message(business_name, customer_name, service_type, service_date, choice) ==
    Format(available_templates(service_type, service_date)[choice],
           customer_name, business_name, service_type, service_date)

OrEmpty(v) == IF isna(v) \/ v = Empty THEN Empty ELSE v

\* generate_messages_batch, one row: the empty string when a name is missing.
\* A table without the optional Service Type column is one whose rows all hold
\* NaN there: both give the generator the empty string.
generate_row(row, choice) ==
    IF isna(row.Customer_Name) \/ isna(row.Business_Name)
    THEN [row EXCEPT !.Generated_Message = Empty]
    ELSE [row EXCEPT !.Generated_Message =
             generate_enhanced_message(row.Business_Name, row.Customer_Name,
                 OrEmpty(row.Service_Type), OrEmpty(row.Service_Date), choice)]

\* the positions random.choice may pick for the row
Choices(row) == 1..Len(available_templates(OrEmpty(row.Service_Type), OrEmpty(row.Service_Date)))


(***************************************************************************)
(* Time.  The delay between messages is the launch form's number input:    *)
(* 0.5 to 5.0 seconds in steps of 0.5, 1.0 unless changed.                 *)
(***************************************************************************)
TicksPerSecond == 10

MinDelay == 5

MaxDelay == 50

DefaultDelay == 10

DelayStep == 5

AllowedDelays == {d \in MinDelay..MaxDelay : (d - MinDelay) % DelayStep = 0}

\* time.sleep(0.1) of a simulated send
TestSleep == 1

(***************************************************************************)
(* The caps the dispatcher is specified to honour (RateLimiter): 100 sends *)
(* in any hour, 10 sends in any 10 seconds.                                *)
(***************************************************************************)
HourlyCap == 100

BurstCap == 10

HourWindow == 3600 * TicksPerSecond

BurstWindow == 10 * TicksPerSecond

\* rows of the long run: one send more than an hour may hold
LongRun == HourlyCap + 1

(***************************************************************************)
(* State.                                                                  *)
(***************************************************************************)
VARIABLES
    twilio_client,   \* TRUE: init_twilio returned a client; FALSE: None
    uploaded_file,   \* the file held by the uploader widget
    session_state,   \* st.session_state
    db,              \* the campaigns table of reviewgarden.db
    confirm_send,    \* the consent checkbox as the launch handler's execution read it
    df,              \* send_sms_with_rate_limit: the table being dispatched
    test_mode,       \* its test_mode argument
    delay_seconds,   \* its delay_seconds argument, in ticks
    pc,              \* where the call stands
    i,               \* the row of the loop, 1-based
    sent, failed, skipped,  \* its counters
    ret,             \* the counters it returned
    progress,        \* what the progress placeholders show
    env,             \* per row: what the channel and the runtime will do
    raw,             \* the rows as read from the CSV, before validation
    now,             \* the clock, in ticks
    outbox,          \* every Channel.send invocation so far
    writes,          \* per row: how often SMS_Status was assigned
    optedOut         \* destinations that replied STOP before the run

uiVars == <<twilio_client, uploaded_file, session_state, db, confirm_send>>

runVars == <<df, test_mode, delay_seconds, pc, i, sent, failed, skipped, ret,
             progress, env, raw, now, outbox, writes, optedOut>>

vars == <<twilio_client, uploaded_file, session_state, db, confirm_send, df, test_mode,
          delay_seconds, pc, i, sent, failed, skipped, ret, progress, env, raw,
          now, outbox, writes, optedOut>>

(***************************************************************************)
(* send_sms_enhanced: the channel's answer is the environment's (accept);  *)
(* every exception of the client is caught and returned as a reason.       *)
(***************************************************************************)
send_sms_enhanced(to_number, message, e) ==
    IF e.accept THEN [success |-> TRUE, result |-> <<"SM", 0>>]
    ELSE [success |-> FALSE, result |-> <<"channel error">>]

\* line 455: the text handed to the channel
final_message(row) == row.Generated_Message \o row.Review_Link \o <<"Reply STOP to opt out.">>

(***************************************************************************)
(* The body of the loop for one row (lines 441-483) when nothing raises:   *)
(* the row as written, the counter that goes up, the Channel.send          *)
(* invocations made, the time spent, and whether the row ends in           *)
(* `continue` (which skips the progress update).                           *)
(***************************************************************************)
NoCall == << >>

\* a run that asks the channel in test mode too
SimulatedNever(mode) == FALSE

\* line 457: the run is simulated exactly when test_mode is set
Simulated(mode) == mode

\* a dispatcher that asks again when the channel refuses
InvocationsRetry(call, answer) == IF answer.success THEN <<call>> ELSE <<call, call>>

\* lines 466-471: the channel is asked once, whatever it answers
Invocations(call, answer) == <<call>>

\* a pause that is taken only after a message that went out
PauseOnSuccess(success, delay) == IF success THEN delay ELSE 0

\* line 483: the pause after the channel was asked, whatever it answered
Pause(success, delay) == delay

RowOutcome(row, idx, hasGenerated, mode, delay, e, t) ==
    IF isna(row.Customer_Name) \/ isna(row.Phone)
    THEN [row |-> [row EXCEPT !.SMS_Status = "Skipped", !.Error = <<"Missing name or phone">>],
          counter |-> "skipped", calls |-> NoCall, elapsed |-> 0, continue |-> TRUE]
    ELSE IF ~hasGenerated \/ isna(row.Generated_Message)
    THEN [row |-> [row EXCEPT !.SMS_Status = "Failed", !.Error = <<"No generated message">>],
          counter |-> "failed", calls |-> NoCall, elapsed |-> 0, continue |-> TRUE]
    ELSE IF Simulated(mode)
    THEN [row |-> [row EXCEPT !.SMS_Status = "Test", !.Sent_Time = <<t + TestSleep>>,
                              !.Message_SID = <<"TEST", idx>>],
          counter |-> "sent", calls |-> NoCall, elapsed |-> TestSleep, continue |-> FALSE]
    ELSE LET message == final_message(row)
             answer  == send_sms_enhanced(row.Phone, message, e)
             call    == [to |-> row.Phone, body |-> message, at |-> t, row |-> idx]
         IN  IF answer.success
             THEN [row |-> [row EXCEPT !.SMS_Status = "Sent", !.Message_SID = answer.result,
                                       !.Sent_Time = <<t + e.latency>>],
                   counter |-> "sent", calls |-> Invocations(call, answer),
                   elapsed |-> e.latency + Pause(TRUE, delay), continue |-> FALSE]
             ELSE [row |-> [row EXCEPT !.SMS_Status = "Failed", !.Error = answer.result,
                                       !.Sent_Time = <<t + e.latency>>],
                   counter |-> "failed", calls |-> Invocations(call, answer),
                   elapsed |-> e.latency + Pause(FALSE, delay), continue |-> FALSE]

\* lines 498-502: what the handler of the row's try writes
ExceptHandler(row) == [row EXCEPT !.SMS_Status = "Failed", !.Error = <<"Unexpected error">>]

\* a try around the whole loop instead of around one row: the handler ends it
AfterExceptionStop(idx, n) == n + 1

\* where the loop goes after the handler: the next row
AfterException(idx, n) == idx + 1

Bump(counter, name, value) == IF counter = name THEN value + 1 ELSE value

NoReturn == [returned |-> FALSE, sent |-> 0, failed |-> 0, skipped |-> 0]

NoProgress == [row |-> 0, sent |-> 0, failed |-> 0, skipped |-> 0]

(***************************************************************************)
(* send_sms_with_rate_limit, step by step.                                 *)
(***************************************************************************)
\* lines 424-426: no client and not a test
Abort ==
    /\ pc = "call"
    /\ ~twilio_client /\ ~test_mode
    /\ ret' = [returned |-> TRUE, sent |-> 0, failed |-> Len(df.rows), skipped |-> 0]
    /\ pc' = "returned"
    /\ UNCHANGED <<uiVars, df, test_mode, delay_seconds, i, sent, failed, skipped,
                   progress, env, raw, now, outbox, writes, optedOut>>

\* lines 428-437: counters, tracking columns, placeholders
Begin ==
    /\ pc = "call"
    /\ twilio_client \/ test_mode
    /\ sent' = 0 /\ failed' = 0 /\ skipped' = 0
    /\ i' = 1
    /\ progress' = NoProgress
    /\ pc' = "loop"
    /\ UNCHANGED <<uiVars, df, test_mode, delay_seconds, ret, env, raw, now, outbox,
                   writes, optedOut>>

\* lines 440-483, no exception
ProcessRow ==
    /\ pc = "loop" /\ i <= Len(df.rows)
    /\ env[i].fault # "body"
    /\ \E o \in {RowOutcome(df.rows[i], i, df.hasGenerated, test_mode, delay_seconds, env[i], now)} :
           /\ df' = [df EXCEPT !.rows[i] = o.row]
           /\ writes' = [writes EXCEPT ![i] = @ + 1]
           /\ sent' = Bump(o.counter, "sent", sent)
           /\ failed' = Bump(o.counter, "failed", failed)
           /\ skipped' = Bump(o.counter, "skipped", skipped)
           /\ outbox' = outbox \o o.calls
           /\ now' = now + o.elapsed
           /\ IF o.continue THEN i' = i + 1 /\ pc' = "loop"
                            ELSE i' = i /\ pc' = "progress"
    /\ UNCHANGED <<uiVars, test_mode, delay_seconds, ret, progress, env, raw, optedOut>>

\* lines 498-502, for whatever raised at row i
Handle ==
    /\ df' = [df EXCEPT !.rows[i] = ExceptHandler(@)]
    /\ writes' = [writes EXCEPT ![i] = @ + 1]
    /\ failed' = failed + 1
    /\ i' = AfterException(i, Len(df.rows))
    /\ pc' = "loop"
    /\ UNCHANGED <<uiVars, test_mode, delay_seconds, sent, skipped, ret, progress, env,
                   raw, now, outbox, optedOut>>

\* an exception before the row's status is written
RaiseInBody ==
    /\ pc = "loop" /\ i <= Len(df.rows)
    /\ env[i].fault = "body"
    /\ Handle

\* lines 485-496: the progress bar, the three metrics, the status line
UpdateProgress ==
    /\ pc = "progress"
    /\ env[i].fault # "progress"
    /\ progress' = [row |-> i, sent |-> sent, failed |-> failed, skipped |-> skipped]
    /\ i' = i + 1
    /\ pc' = "loop"
    /\ UNCHANGED <<uiVars, df, test_mode, delay_seconds, sent, failed, skipped, ret, env,
                   raw, now, outbox, writes, optedOut>>

\* an exception out of the progress update, after the row's status is written
RaiseInProgress ==
    /\ pc = "progress"
    /\ env[i].fault = "progress"
    /\ Handle

\* lines 504-508
Return ==
    /\ pc = "loop" /\ i > Len(df.rows)
    /\ ret' = [returned |-> TRUE, sent |-> sent, failed |-> failed, skipped |-> skipped]
    /\ pc' = "returned"
    /\ UNCHANGED <<uiVars, df, test_mode, delay_seconds, i, sent, failed, skipped,
                   progress, env, raw, now, outbox, writes, optedOut>>

Dispatch ==
    \/ Abort
    \/ Begin
    \/ ProcessRow
    \/ RaiseInBody
    \/ UpdateProgress
    \/ RaiseInProgress
    \/ Return


(***************************************************************************)
(* The session as the script's first execution leaves it (lines 134-143),  *)
(* with nothing uploaded and no campaign saved.                            *)
(***************************************************************************)
NoTable == [isNone |-> TRUE, hasGenerated |-> FALSE, rows |-> << >>]

Table(hasGenerated, rows) == [isNone |-> FALSE, hasGenerated |-> hasGenerated, rows |-> rows]

NoFile == [present |-> FALSE, columns |-> {}, rows |-> << >>]

NoResults == [present |-> FALSE, sent |-> 0, failed |-> 0, skipped |-> 0, test_mode |-> FALSE]

InitialSession ==
    [df_processed |-> NoTable, messages_generated |-> FALSE, campaign_sent |-> FALSE,
     current_step |-> 1, test_mode |-> TRUE, campaign_results |-> NoResults,
     sending_in_progress |-> FALSE]

(***************************************************************************)
(* Sample rows of an upload, and what the environment may do to a row.     *)
(***************************************************************************)
Alice == <<"Alice">>

GardenCafe == <<"Garden Cafe">>

ReviewLink == <<"https://g.page/r/review">>

\* ten digits: normalized to +15551234567
TenDigits == <<"5", "5", "5", "1", "2", "3", "4", "5", "6", "7">>

\* five digits: reported invalid
FiveDigits == <<"1", "2", "3", "4", "5">>

CsvRow(customer, business, phone) ==
    [Business_Name |-> business, Customer_Name |-> customer, Phone |-> phone,
     Service_Date |-> NaN, Service_Type |-> NaN, Review_Link |-> ReviewLink,
     Generated_Message |-> NaN, SMS_Status |-> "", Error |-> Empty,
     Sent_Time |-> Empty, Message_SID |-> Empty]

ValidRow == CsvRow(Alice, GardenCafe, TenDigits)

SampleRows ==
    { ValidRow,
      CsvRow(NaN, GardenCafe, TenDigits),
      CsvRow(Alice, GardenCafe, NaN),
      CsvRow(Alice, GardenCafe, FiveDigits),
      CsvRow(Alice, NaN, TenDigits),
      [ValidRow EXCEPT !.Review_Link = NaN] }

Quiet == [accept |-> TRUE, fault |-> "none", latency |-> 0]

\* The answers that make a difference for the row: the channel is asked only
\* in a real run for a row that passes the guards, and the progress update is
\* reached only by such a row.
EnvsFor(row, mode, configured) ==
    IF ~configured /\ ~mode THEN {Quiet}
    ELSE IF isna(row.Customer_Name) \/ isna(row.Phone)
    THEN {[Quiet EXCEPT !.fault = f] : f \in {"none", "body"}}
    ELSE IF mode
    THEN {[Quiet EXCEPT !.fault = f] : f \in {"none", "body", "progress"}}
    ELSE {[Quiet EXCEPT !.fault = "body"]}
         \cup {[accept |-> a, fault |-> "progress", latency |-> 0] : a \in BOOLEAN}
         \cup {[accept |-> FALSE, fault |-> "none", latency |-> 0]}
         \cup {[accept |-> TRUE, fault |-> "none", latency |-> l] : l \in {0, SlowCall}}

Scenarios(mode, configured) ==
    UNION {{[row |-> r, env |-> e] : e \in EnvsFor(r, mode, configured)} : r \in SampleRows}

Batches(S) == UNION {[1..n -> S] : n \in 1..MaxRows}

\* the table the launch handler passes: validated, messages generated
Prepared(rows) ==
    LET clean == enhanced_validate_csv_data(rows)
    IN  [k \in 1..Len(rows) |-> generate_row(clean[k], 1)]

NormalizedTen == validate_phone_number(TenDigits).value

CallWith(rows, oracle, generated, mode, delay, stops) ==
    /\ raw = rows
    /\ df = Table(generated, IF generated THEN Prepared(rows) ELSE enhanced_validate_csv_data(rows))
    /\ env = oracle
    /\ test_mode = mode
    /\ delay_seconds = delay
    /\ optedOut = stops
    /\ pc = "call"
    /\ i = 0 /\ sent = 0 /\ failed = 0 /\ skipped = 0
    /\ ret = NoReturn
    /\ progress = NoProgress
    /\ now = 0
    /\ outbox = << >>
    /\ writes = [k \in 1..Len(rows) |-> 0]

\* every short batch, in every mode
InitShort ==
    \E mode \in BOOLEAN, configured \in BOOLEAN :
      \E b \in Batches(Scenarios(mode, configured)) :
        \E delay \in {MinDelay, DefaultDelay}, stops \in {{}, {NormalizedTen}} :
          /\ twilio_client = configured
          /\ (mode \/ ~configured) => delay = DefaultDelay
          /\ CallWith([k \in 1..Len(b) |-> b[k].row], [k \in 1..Len(b) |-> b[k].env],
                      TRUE, mode, delay, stops)

\* a table on which generate_messages_batch was never run
InitUngenerated ==
    \E mode \in BOOLEAN :
      \E b \in Batches(SampleRows) :
          /\ twilio_client = TRUE
          /\ CallWith(b, [k \in 1..Len(b) |-> Quiet], FALSE, mode, DefaultDelay, {})

\* one long real run of valid rows, the channel accepting each
InitLong ==
    \E delay \in AllowedDelays, l \in {0, SlowCall} :
        /\ twilio_client = TRUE
        /\ CallWith([k \in 1..LongRun |-> ValidRow],
                    [k \in 1..LongRun |-> [Quiet EXCEPT !.latency = l]],
                    TRUE, FALSE, delay, {})

Init ==
    /\ uploaded_file = NoFile
    /\ session_state = InitialSession
    /\ db = << >>
    /\ confirm_send = FALSE
    /\ (InitShort \/ InitUngenerated \/ InitLong)

Next == Dispatch

Spec == Init /\ [][Next]_vars


(***************************************************************************)
(* What the properties speak of.                                           *)
(***************************************************************************)
Rows == DOMAIN df.rows

Status(k) == df.rows[k].SMS_Status

\* the Channel.send invocations made for row k
Calls(k) == Cardinality({c \in DOMAIN outbox : outbox[c].row = k})

Returned == ret.returned

\* the call stopped at lines 424-426
Aborted == Returned /\ ~twilio_client /\ ~test_mode

Completed == Returned /\ ~Aborted

\* an exception is raised while row k is processed
Raises(k) == env[k].fault # "none"

\* the statuses of the data model; "Test" is how a test run spells Sent
TerminalStatus == {"Sent", "Test", "Failed", "Skipped", "OptedOut"}

\* save_campaign_to_db, line 513
success_rate(s, f) == IF s + f > 0 THEN (s * 100) \div (s + f) ELSE 0

\* sends inside the window of length w that ends with send c
InWindow(c, w) == {j \in 1..c : outbox[j].at > outbox[c].at - w}


(***************************************************************************)
(* Properties of a dispatch run.                                           *)
(***************************************************************************)

\* C1: in a run that processes its rows, the status of a row is assigned at
\* most once, and when the call has returned every row holds one terminal
\* status that was assigned exactly once.
C1_StatusWrittenOnce ==
    /\ \A k \in Rows : writes[k] <= 1
    /\ Completed => \A k \in Rows : writes[k] = 1 /\ Status(k) \in TerminalStatus

\* C2: a row whose destination opted out before the run is never handed to
\* Channel.send, and once processed (without an exception) it has the status
\* OptedOut.
C2_OptedOutNeverSent ==
    \A k \in Rows :
        df.rows[k].Phone \in optedOut =>
            /\ Calls(k) = 0
            /\ (writes[k] >= 1 /\ ~Raises(k)) => Status(k) = "OptedOut"

\* C3: Channel.send is invoked at most once for a row in a run, whatever the
\* channel answers.
C3_AtMostOneSend == \A k \in Rows : Calls(k) <= 1

\* C3's case: a real run has returned, the channel refused a row, and that
\* row was handed to the channel once.
C3_Witness ==
    /\ Completed /\ ~test_mode
    /\ \E k \in Rows :
          /\ Status(k) = "Failed" /\ df.rows[k].Error = <<"channel error">>
          /\ Calls(k) = 1

\* C4: a processed row whose customer name is missing, or whose phone is
\* missing or was reported invalid by the validation, is Skipped for
\* "missing name or phone" and was never handed to Channel.send (rows on
\* which an exception is raised apart).
C4_UnusableRowSkipped ==
    \A k \in Rows :
        ( /\ writes[k] >= 1
          /\ ~Raises(k)
          /\ isna(raw[k].Customer_Name) \/ ~validate_phone_number(raw[k].Phone).ok )
        => /\ Status(k) = "Skipped"
           /\ df.rows[k].Error = <<"Missing name or phone">>
           /\ Calls(k) = 0

\* C5: a run that has started always has a next step until it returns, and
\* when it has returned every row was attempted and holds a status; a row on
\* which an exception was raised is Failed with the generic reason.
C5_ExceptionIsolated ==
    /\ (~Returned => ENABLED Dispatch)
    /\ Completed =>
          \A k \in Rows :
              /\ writes[k] >= 1
              /\ Status(k) # ""
              /\ Raises(k) => /\ Status(k) = "Failed"
                              /\ df.rows[k].Error = <<"Unexpected error">>

\* C5's case: a returned run of two rows in which the first raised and the
\* second went through.
C5_Witness ==
    /\ Completed
    /\ Len(df.rows) >= 2
    /\ Raises(1) /\ Status(1) = "Failed"
    /\ ~Raises(2) /\ Status(2) \in {"Sent", "Test"}

\* a row that passes the entry guards of the loop
PassesGuards(k) ==
    /\ ~isna(df.rows[k].Customer_Name) /\ ~isna(df.rows[k].Phone)
    /\ df.hasGenerated /\ ~isna(df.rows[k].Generated_Message)

\* every row of the batch passes the guards
AllValid == \A k \in Rows : PassesGuards(k)

C7_AbortIsNotFailure ==
    Aborted =>
        /\ outbox = << >>
        /\ \A k \in Rows : Status(k) = "" /\ writes[k] = 0
        /\ ret.failed = 0

\* C8: in a real run no hour holds more than 100 Channel.send invocations.
C8_HourlyCap ==
    ~test_mode => \A c \in DOMAIN outbox : Cardinality(InWindow(c, HourWindow)) <= HourlyCap

\* C9: in a real run no 10 seconds hold more than 10 Channel.send invocations,
\* whatever the delay between messages.
C9_BurstCap ==
    ~test_mode => \A c \in DOMAIN outbox : Cardinality(InWindow(c, BurstWindow)) <= BurstCap


(***************************************************************************)
(* The Send Campaign page.  Streamlit runs the whole script again on every *)
(* interaction, so each action below is one execution of lines 571-830     *)
(* with the widgets as the interaction left them, up to and including the  *)
(* execution that st.rerun() starts.                                       *)
(***************************************************************************)
AllColumns == RequiredColumns \cup {"Service Type"}

CsvFile(columns, rows) == [present |-> TRUE, columns |-> columns, rows |-> rows]

\* the files the operator may pick: two well-formed ones, one without its
\* Phone column, one with a header only
GoodFiles ==
    { CsvFile(AllColumns, <<ValidRow>>),
      CsvFile(RequiredColumns, <<ValidRow, CsvRow(Alice, GardenCafe, FiveDigits)>>) }

BadFiles ==
    { CsvFile(AllColumns \ {"Phone"}, <<ValidRow>>),
      CsvFile(AllColumns, << >>) }

Files == GoodFiles \cup BadFiles

\* lines 634-661: the upload block of one execution
UploadBlock(ss, file) ==
    IF file.present /\ check_csv(file)
    THEN [ss EXCEPT !.df_processed = Table(FALSE, enhanced_validate_csv_data(file.rows)),
                    !.current_step = 2]
    ELSE ss

\* lines 663-666: step 2 is drawn
ShowsStep2(ss) == ss.current_step >= 2 /\ ~ss.df_processed.isNone

\* lines 714-717: step 3 is drawn
ShowsStep3(ss) ==
    /\ ss.current_step >= 3
    /\ ~ss.df_processed.isNone
    /\ ss.df_processed.hasGenerated
    /\ ~ss.campaign_sent

\* lines 723-733: the test-mode checkbox, forced while there is no client
LaunchForm(ss, testBox) ==
    IF ShowsStep3(ss)
    THEN [ss EXCEPT !.test_mode = IF ~twilio_client THEN TRUE ELSE testBox]
    ELSE ss

\* one execution in which no button is pressed
Execution(ss, file, testBox) == LaunchForm(UploadBlock(ss, file), testBox)

\* generate_messages_batch on the session's table; choice[k] is the template
\* random.choice picks for row k
generate_messages_batch(table, choice) ==
    Table(TRUE, [k \in 1..Len(table.rows) |-> generate_row(table.rows[k], choice[k])])

\* the picks random.choice may make over a table
Draws(table) ==
    {c \in [DOMAIN table.rows -> 1..TemplateDraws] :
        \A k \in DOMAIN table.rows : c[k] \in Choices(table.rows[k])}

Idle == pc = "idle"

\* the operator picks a file
Upload ==
    /\ Idle
    /\ \E f \in Files, testBox \in BOOLEAN :
          /\ f # uploaded_file
          /\ uploaded_file' = f
          /\ session_state' = Execution(session_state, f, testBox)
    /\ UNCHANGED <<twilio_client, db, confirm_send, runVars>>

\* the operator removes the file from the uploader
RemoveFile ==
    /\ Idle
    /\ uploaded_file.present
    /\ uploaded_file' = NoFile
    /\ \E testBox \in BOOLEAN :
          session_state' = Execution(session_state, NoFile, testBox)
    /\ UNCHANGED <<twilio_client, db, confirm_send, runVars>>

\* lines 676-683: Generate Messages, then the execution of st.rerun()
ClickGenerate ==
    /\ Idle
    /\ \E ss \in {UploadBlock(session_state, uploaded_file)}, testBox \in BOOLEAN :
          /\ ShowsStep2(ss) /\ ~ss.df_processed.hasGenerated
          /\ \E choice \in Draws(ss.df_processed) :
             session_state' =
                Execution([ss EXCEPT !.df_processed = generate_messages_batch(@, choice),
                                     !.messages_generated = TRUE,
                                     !.current_step = 3],
                          uploaded_file, testBox)
    /\ UNCHANGED <<twilio_client, uploaded_file, db, confirm_send, runVars>>

\* lines 708-712: Regenerate All Messages, then the execution of st.rerun()
ClickRegenerate ==
    /\ Idle
    /\ \E ss \in {UploadBlock(session_state, uploaded_file)}, testBox \in BOOLEAN :
          /\ ShowsStep2(ss) /\ ss.df_processed.hasGenerated
          /\ \E choice \in Draws(ss.df_processed) :
             session_state' =
                Execution([ss EXCEPT !.df_processed = generate_messages_batch(@, choice)],
                          uploaded_file, testBox)
    /\ UNCHANGED <<twilio_client, uploaded_file, db, confirm_send, runVars>>

AllEnvs == [accept : BOOLEAN, fault : {"none", "body", "progress"}, latency : {0, SlowCall}]

\* what the environment may do to the rows of a table
Oracles(rows, mode, configured) ==
    {o \in [DOMAIN rows -> AllEnvs] :
        \A k \in DOMAIN rows : o[k] \in EnvsFor(rows[k], mode, configured)}

\* a page that draws the launch button whatever the consent checkbox holds
LaunchOfferedAlways(confirmed, mode) == TRUE

\* line 765: the launch button is drawn with the consent checkbox set, or in
\* test mode
LaunchOffered(confirmed, mode) == confirmed \/ mode

\* lines 771-775: the button is disabled without a client outside test mode
LaunchEnabled(configured, mode) == configured \/ mode

\* lines 765-799: the launch button is pressed and the handler calls
\* send_sms_with_rate_limit on a copy of the session's table
ClickLaunch ==
    /\ Idle
    /\ \E testBox \in BOOLEAN, confirmBox \in BOOLEAN, rate_limit \in {MinDelay, DefaultDelay} :
        \E ss \in {Execution(session_state, uploaded_file, testBox)} :
             /\ ShowsStep3(ss)
             /\ LaunchOffered(confirmBox, ss.test_mode)
             /\ LaunchEnabled(twilio_client, ss.test_mode)
             /\ confirm_send' = confirmBox
             /\ ~ss.sending_in_progress
             /\ session_state' = [ss EXCEPT !.sending_in_progress = TRUE]
             /\ df' = ss.df_processed
             /\ test_mode' = ss.test_mode
             /\ delay_seconds' = rate_limit
             /\ raw' = ss.df_processed.rows
             /\ env' \in Oracles(ss.df_processed.rows, ss.test_mode, twilio_client)
             /\ writes' = [k \in DOMAIN ss.df_processed.rows |-> 0]
             /\ outbox' = << >>
             /\ pc' = "call"
    /\ UNCHANGED <<twilio_client, uploaded_file, db, i, sent, failed, skipped, ret,
                   progress, now, optedOut>>

\* save_campaign_to_db: one row in campaigns, one in campaign_details per customer
Saved(total, counters, mode, table) ==
    [total_customers |-> total, messages_sent |-> counters.sent,
     messages_failed |-> counters.failed, messages_skipped |-> counters.skipped,
     test_mode |-> mode, success_rate |-> success_rate(counters.sent, counters.failed),
     details |-> [k \in 1..Len(table.rows) |->
                    [customer_name |-> table.rows[k].Customer_Name,
                     phone |-> table.rows[k].Phone,
                     status |-> table.rows[k].SMS_Status,
                     error_message |-> table.rows[k].Error,
                     sent_time |-> table.rows[k].Sent_Time]]]

\* lines 801-828: the call has returned; the campaign is saved, the session
\* updated, and st.rerun() executes the script once more.  The locals of the
\* call are gone.
FinishLaunch ==
    /\ pc = "returned"
    /\ session_state.sending_in_progress
    /\ db' = Append(db, Saved(Len(session_state.df_processed.rows), ret, test_mode, df))
    /\ \E testBox \in BOOLEAN :
         session_state' =
            Execution([session_state EXCEPT
                          !.df_processed = df,
                          !.campaign_sent = TRUE,
                          !.campaign_results = [present |-> TRUE, sent |-> ret.sent,
                                                failed |-> ret.failed, skipped |-> ret.skipped,
                                                test_mode |-> test_mode],
                          !.sending_in_progress = FALSE,
                          !.current_step = 4],
                      uploaded_file, testBox)
    /\ pc' = "idle"
    /\ df' = NoTable /\ test_mode' = FALSE /\ delay_seconds' = DefaultDelay
    /\ i' = 0 /\ sent' = 0 /\ failed' = 0 /\ skipped' = 0
    /\ ret' = NoReturn /\ progress' = NoProgress
    /\ env' = << >> /\ raw' = << >> /\ outbox' = << >> /\ writes' = << >>
    /\ confirm_send' = FALSE
    /\ UNCHANGED <<twilio_client, uploaded_file, now, optedOut>>

InitUI ==
    /\ twilio_client \in BOOLEAN
    /\ uploaded_file = NoFile
    /\ session_state = InitialSession
    /\ db = << >>
    /\ confirm_send = FALSE
    /\ df = NoTable
    /\ test_mode = FALSE
    /\ delay_seconds = DefaultDelay
    /\ pc = "idle"
    /\ i = 0 /\ sent = 0 /\ failed = 0 /\ skipped = 0
    /\ ret = NoReturn
    /\ progress = NoProgress
    /\ env = << >>
    /\ raw = << >>
    /\ now = 0
    /\ outbox = << >>
    /\ writes = << >>
    /\ optedOut = {}

\* The launch form forces test mode while there is no client, so the page
\* never makes the call that lines 424-426 turn away.
NextUI ==
    \/ Upload
    \/ RemoveFile
    \/ ClickGenerate
    \/ ClickRegenerate
    \/ ClickLaunch
    \/ FinishLaunch
    \/ Begin
    \/ ProcessRow
    \/ RaiseInBody
    \/ UpdateProgress
    \/ RaiseInProgress
    \/ Return

SpecUI == InitUI /\ [][NextUI]_vars


(***************************************************************************)
(* Properties of the page.                                                 *)
(***************************************************************************)
\* the uploader holds a file that check_csv turns away
FatalUpload == uploaded_file.present /\ ~check_csv(uploaded_file)

\* C10: while the uploader holds a file whose validation was fatal, the
\* session holds nothing that can be dispatched: no run is under way and the
\* launch step is not offered.
C10_FatalUploadDispatchesNothing ==
    FatalUpload => (pc = "idle" /\ ~ShowsStep3(session_state))


(***************************************************************************)
(* Further properties of a dispatch run.                                   *)
(***************************************************************************)
\* the row has no generated text: the column is absent, the cell is NaN, or
\* generate_messages_batch wrote the empty string for a missing name
NoMessage(k) ==
    \/ ~df.hasGenerated
    \/ isna(df.rows[k].Generated_Message)
    \/ df.rows[k].Generated_Message = Empty

\* C11: a processed row that has a name and a phone but no generated text
\* (the batch generator's empty text for a missing name included) is Failed
\* for "No generated message" and was never handed to Channel.send (rows on
\* which an exception is raised apart).
C11_NoMessageFails ==
    \A k \in Rows :
        ( /\ writes[k] >= 1 /\ ~Raises(k)
          /\ ~isna(df.rows[k].Customer_Name) /\ ~isna(df.rows[k].Phone)
          /\ NoMessage(k) )
        => /\ Status(k) = "Failed"
           /\ df.rows[k].Error = <<"No generated message">>
           /\ Calls(k) = 0

\* the literal suffix of line 455
OptOutInstruction == <<"Reply STOP to opt out.">>

\* C12: every body handed to Channel.send is the row's generated text, then
\* the row's review link, then the opt-out instruction, and neither the text
\* nor the link is empty or missing.
C12_BodyIsRealContent ==
    \A c \in DOMAIN outbox :
        LET r == df.rows[outbox[c].row]
        IN  /\ outbox[c].body = r.Generated_Message \o r.Review_Link \o OptOutInstruction
            /\ ~isna(r.Generated_Message) /\ r.Generated_Message # Empty
            /\ ~isna(r.Review_Link) /\ r.Review_Link # Empty

\* what the placeholders would show had they been updated after row k
Published(k) == [row |-> k, sent |-> sent, failed |-> failed, skipped |-> skipped]

\* C13: in a run in which nothing raises, whenever the loop is about to take
\* its next row the progress observer holds the position of the row just
\* finished and the running counts, and after the run the last published
\* counts are the returned counts.
C13_ProgressAfterEachRow ==
    (\A k \in Rows : ~Raises(k)) =>
        /\ (pc = "loop" /\ i >= 1) => progress = Published(i - 1)
        /\ Completed =>
              /\ progress.row = Len(df.rows)
              /\ progress.sent = ret.sent
              /\ progress.failed = ret.failed
              /\ progress.skipped = ret.skipped

\* C14: the database on disk holds no customer name and no phone number,
\* whatever was uploaded, generated and launched.
C14_NoCustomerDataOnDisk ==
    \A c \in DOMAIN db :
        \A k \in DOMAIN db[c].details :
            /\ db[c].details[k].customer_name \in {NaN, Empty}
            /\ db[c].details[k].phone \in {NaN, Empty}

(***************************************************************************)
(* The data functions on their own: validate_phone_number (through its     *)
(* caller enhanced_validate_csv_data) applied to an input and then to its  *)
(* own result, and generate_messages_batch applied to the validated row.   *)
(***************************************************************************)
\* the characters line 165 removes
Punctuation == {" ", "-", "(", ")", "."}

TenDigitsZero == <<"5", "5", "5", "1", "2", "3", "4", "5", "6", "0">>

DigitStrings == {TenDigits, TenDigitsZero, <<"1">> \o TenDigits, <<"1">> \o TenDigitsZero}

\* string s with character c put in after position pos
Insert(s, c, pos) == SubSeq(s, 1, pos) \o <<c>> \o SubSeq(s, pos + 1, Len(s))

\* (555) 123-4567 and +1 555-123-4567
Parenthesized == <<"(", "5", "5", "5", ")", " ", "1", "2", "3", "-", "4", "5", "6", "7">>

International == <<"+", "1", " ", "5", "5", "5", "-", "1", "2", "3", "-", "4", "5", "6", "7">>

\* the phone cells tried: digits alone, with one punctuation character
\* anywhere, and two usual ways of writing a number
PhoneInputs ==
    DigitStrings
    \cup UNION {{Insert(d, c, pos) : c \in Punctuation, pos \in 0..Len(d)} : d \in DigitStrings}
    \cup {Parenthesized, International}

Haircut == <<"haircut">>

ServiceDay == <<"2024-01-15">>

\* the rows tried: every phone cell with no service details, and the sample
\* phone with every combination of service type and service date
DataRows ==
    {[ValidRow EXCEPT !.Phone = x] : x \in PhoneInputs}
    \cup {[ValidRow EXCEPT !.Service_Type = st, !.Service_Date = sd] :
             st \in {NaN, Haircut}, sd \in {NaN, ServiceDay}}

InitData ==
    /\ twilio_client = FALSE
    /\ uploaded_file = NoFile
    /\ session_state = InitialSession
    /\ db = << >>
    /\ confirm_send = FALSE
    /\ \E r \in DataRows : raw = <<r>>
    /\ df = NoTable
    /\ test_mode = FALSE
    /\ delay_seconds = DefaultDelay
    /\ pc = "read"
    /\ i = 0 /\ sent = 0 /\ failed = 0 /\ skipped = 0
    /\ ret = NoReturn
    /\ progress = NoProgress
    /\ env = << >>
    /\ now = 0
    /\ outbox = << >>
    /\ writes = << >>
    /\ optedOut = {}

dataVars == <<twilio_client, uploaded_file, session_state, db, confirm_send, test_mode, delay_seconds,
              i, sent, failed, skipped, ret, progress, env, raw, now, outbox, writes,
              optedOut>>

\* lines 248-280 over the rows as read
Normalize ==
    /\ pc = "read"
    /\ df' = Table(FALSE, enhanced_validate_csv_data(raw))
    /\ pc' = "validated"
    /\ UNCHANGED dataVars

\* the same over rows that were validated before
NormalizeAgain ==
    /\ pc = "validated"
    /\ df' = Table(FALSE, enhanced_validate_csv_data(df.rows))
    /\ pc' = "revalidated"
    /\ UNCHANGED dataVars

\* every pick random.choice may make for each row
AllDraws(table) ==
    {c \in [DOMAIN table.rows -> 1..Len(date_service_templates \o load_message_templates)] :
        \A k \in DOMAIN table.rows : c[k] \in Choices(table.rows[k])}

\* generate_messages_batch over the validated rows
Generate ==
    /\ pc = "validated"
    /\ \E choice \in AllDraws(df) : df' = generate_messages_batch(df, choice)
    /\ pc' = "generated"
    /\ UNCHANGED dataVars

NextData ==
    \/ Normalize
    \/ NormalizeAgain
    \/ Generate

SpecData == InitData /\ [][NextData]_vars

\* the digits of a string
DigitsOf(s) == SelectSeq(s, IsDigit)

\* a 10-digit input, or an 11-digit input that starts with the country digit
\* 1, written with digits and punctuation only
TenOrEleven(x) ==
    /\ ~isna(x)
    /\ \A p \in DOMAIN x : IsDigit(x[p]) \/ x[p] \in Punctuation
    /\ \/ Len(DigitsOf(x)) = 10
       \/ Len(DigitsOf(x)) = 11 /\ DigitsOf(x)[1] = "1"

\* +15551234567
PlusOneTen == <<"+", "1">> \o TenDigits

\* C15: every 10-digit input and every 11-digit input that starts with 1,
\* with or without punctuation, is accepted; the validated table holds its
\* normalized form; validating that form again leaves it as it is; and
\* 5551234567 becomes +15551234567.
C15_NormalizeIdempotent ==
    \A k \in DOMAIN raw :
        (pc \in {"validated", "revalidated"} /\ TenOrEleven(raw[k].Phone)) =>
            LET n == validate_phone_number(raw[k].Phone)
            IN  /\ n.ok
                /\ df.rows[k].Phone = n.value
                /\ validate_phone_number(n.value) = n
                /\ raw[k].Phone = TenDigits => df.rows[k].Phone = PlusOneTen

\* the templates of a list
Range(s) == {s[p] : p \in DOMAIN s}

\* the pool when every applicable tier is pooled
PooledTiers(service_type, service_date) ==
    (IF service_date # Empty /\ service_type # Empty
     THEN Range(date_service_templates) \cup Range(date_templates) \cup Range(service_templates)
     ELSE IF service_date # Empty THEN Range(date_templates)
     ELSE IF service_type # Empty THEN Range(service_templates)
     ELSE {})
    \cup Range(load_message_templates)

\* C19: for a validated row the templates random.choice draws from are the
\* variants of every applicable tier (type and date, date only, type only)
\* and the base variants, and the generated text is one of them filled in.
C19_TemplatesPooled ==
    \A k \in DOMAIN raw :
        pc \in {"validated", "generated"} =>
            LET row == df.rows[k]
                st  == OrEmpty(row.Service_Type)
                sd  == OrEmpty(row.Service_Date)
            IN  /\ Range(available_templates(st, sd)) = PooledTiers(st, sd)
                /\ pc = "generated" =>
                      row.Generated_Message \in
                          {Format(t, row.Customer_Name, row.Business_Name, st, sd) :
                              t \in PooledTiers(st, sd)}

(***************************************************************************)
(* Results, counters and pacing of a dispatch run.                         *)
(***************************************************************************)
\* C16: when a real run has returned, a row for which the channel reported
\* success is Sent and holds the channel's id, and a row for which the
\* channel reported failure is Failed and holds a reason.
C16_SendResultRecorded ==
    (~test_mode /\ Completed) =>
        \A k \in Rows :
            Calls(k) >= 1 =>
                IF env[k].accept
                THEN Status(k) = "Sent" /\ df.rows[k].Message_SID = <<"SM", 0>>
                ELSE Status(k) = "Failed" /\ df.rows[k].Error # Empty

\* the rows whose final status is one of S
WithStatus(S) == Cardinality({k \in Rows : Status(k) \in S})

\* C17: when the call has returned (after the loop or at the entry check),
\* the three counters add up to the number of rows and each is the number
\* of rows that hold its status.
C17_CountersConsistent ==
    Returned =>
        /\ ret.sent + ret.failed + ret.skipped = Len(df.rows)
        /\ ret.sent = WithStatus({"Sent", "Test"})
        /\ ret.failed = WithStatus({"Failed"})
        /\ ret.skipped = WithStatus({"Skipped"})

\* the time the run has spent on the Channel.send invocations up to the
\* c-th: each call's own duration and the configured delay after it
RECURSIVE SendTime(_)
SendTime(c) ==
    IF c = 0 THEN 0
    ELSE SendTime(c - 1) + env[outbox[c].row].latency + delay_seconds

\* C18: in a real run two consecutive Channel.send invocations are at least
\* delay_seconds apart, whatever the channel answered, and the run has spent
\* no time other than the calls and the delay after each of them: rows that
\* are skipped or fail a guard add none.
C18_FixedDelayAfterEverySend ==
    ~test_mode =>
        /\ \A c \in DOMAIN outbox :
              c > 1 => outbox[c].at - outbox[c - 1].at >= delay_seconds
        /\ now = SendTime(Len(outbox))

\* C18's case: a real run has returned in which the channel refused the
\* first row and took the second, the second call coming exactly one delay
\* after the first.
C18_Witness ==
    /\ ~test_mode /\ Completed
    /\ Len(outbox) = 2
    /\ Status(1) = "Failed" /\ df.rows[1].Error = <<"channel error">>
    /\ Status(2) = "Sent"
    /\ outbox[2].at - outbox[1].at = delay_seconds

(***************************************************************************)
(* Progress of the workflow on the page.                                   *)
(***************************************************************************)
\* C20: an execution in which Generate Messages was pressed leaves the launch
\* step on the page, and while the uploader's file stays as it is and the
\* campaign is not sent, no later execution takes the launch step away.
C20_LaunchStepStays ==
    [][ /\ ClickGenerate => ShowsStep3(session_state')
        /\ ( /\ ShowsStep3(session_state)
             /\ uploaded_file' = uploaded_file
             /\ ~session_state'.campaign_sent )
           => ShowsStep3(session_state') ]_vars

(***************************************************************************)
(* The consent gate of the launch step.                                    *)
(***************************************************************************)
\* the launch handler's call of send_sms_with_rate_limit is under way
Running == pc \in {"call", "loop", "progress", "returned"}

\* C21: on the page, a run outside test mode is under way only if the
\* execution that started it read the consent checkbox as set and the channel
\* client is configured, and Channel.send was invoked only in such a run.
C21_ConsentGate ==
    /\ (Running /\ ~test_mode) => (confirm_send /\ twilio_client)
    /\ outbox # << >> => (Running /\ ~test_mode /\ confirm_send /\ twilio_client)

\* C21's case: a real campaign launched with the consent checkbox set has
\* handed a message to the channel.
C21_Witness ==
    /\ Running /\ ~test_mode
    /\ confirm_send /\ twilio_client
    /\ outbox # << >>

====
